---------------------------- MODULE Spec2Model ----------------------------
(***************************************************************************)
(* Model of child_support_2021.py: the 2021 guideline table, the bracket   *)
(* lookups of Guideline2021 and the pipeline of calculate_child_support.   *)
(*                                                                         *)
(* Conventions                                                             *)
(*  - Python's None / Optional[int] is the empty sequence <<>>, a supplied *)
(*    value v is <<v>>.                                                    *)
(*  - Python floats are modelled as exact rationals [n |-> num, d |-> den] *)
(*    in lowest terms with d > 0.  A float product such as x * 1.1 can be  *)
(*    off by one unit in the last place, which moves a rounded result by 1 *)
(*    only when the exact value is a half; on every request enumerated     *)
(*    below (also with the bounds one larger) the program run on floats    *)
(*    returns the same numbers and raises the same errors as this model.   *)
(*  - Bracket indices are 0-based as in the program; TLA+ sequences are    *)
(*    1-based, so bracket idx is element idx + 1 of a sequence.            *)
(*  - The age labels drop the trailing Korean character of the source      *)
(*    labels ("0~2" stands for the source's label for ages 0 to 2).        *)
(*  - calculate_child_support raises ValueError at four places; the error  *)
(*    is named after the place: "EmptyChildrenError" (line 266),           *)
(*    "NegativeIncomeError" (line 279), "OutOfRangeError" (line 222),      *)
(*    "InvalidAdjustmentError" (line 321), "NoBracketError" (line 235).    *)
(***************************************************************************)
EXTENDS Integers, Sequences, FiniteSets, TLC

-----------------------------------------------------------------------------
(* Reference data                                                          *)

None == <<>>

INCOME_BRACKETS_MW == <<
    [lo |-> 0,    hi |-> <<199>>],
    [lo |-> 200,  hi |-> <<299>>],
    [lo |-> 300,  hi |-> <<399>>],
    [lo |-> 400,  hi |-> <<499>>],
    [lo |-> 500,  hi |-> <<599>>],
    [lo |-> 600,  hi |-> <<699>>],
    [lo |-> 700,  hi |-> <<799>>],
    [lo |-> 800,  hi |-> <<899>>],
    [lo |-> 900,  hi |-> <<999>>],
    [lo |-> 1000, hi |-> <<1199>>],
    [lo |-> 1200, hi |-> None] >>

AGE_BRACKETS == <<
    [a_min |-> 0,  a_max |-> 2,  label |-> "0~2"],
    [a_min |-> 3,  a_max |-> 5,  label |-> "3~5"],
    [a_min |-> 6,  a_max |-> 8,  label |-> "6~8"],
    [a_min |-> 9,  a_max |-> 11, label |-> "9~11"],
    [a_min |-> 12, a_max |-> 14, label |-> "12~14"],
    [a_min |-> 15, a_max |-> 18, label |-> "15~18"] >>

(* TABLE_2021[label]: the row of cells of one age label, by income bracket *)
TABLE_2021(label) ==
    IF label = "0~2" THEN <<
        [avg |-> 621000, low |-> 264000, high |-> <<686000>>],
        [avg |-> 752000, low |-> 687000, high |-> <<848000>>],
        [avg |-> 945000, low |-> 849000, high |-> <<1021000>>],
        [avg |-> 1098000, low |-> 1022000, high |-> <<1171000>>],
        [avg |-> 1245000, low |-> 1172000, high |-> <<1323000>>],
        [avg |-> 1401000, low |-> 1324000, high |-> <<1491000>>],
        [avg |-> 1582000, low |-> 1492000, high |-> <<1685000>>],
        [avg |-> 1789000, low |-> 1686000, high |-> <<1893000>>],
        [avg |-> 1997000, low |-> 1894000, high |-> <<2046000>>],
        [avg |-> 2095000, low |-> 2047000, high |-> <<2151000>>],
        [avg |-> 2207000, low |-> 2152000, high |-> <<>>] >>
    ELSE
    IF label = "3~5" THEN <<
        [avg |-> 631000, low |-> 268000, high |-> <<695000>>],
        [avg |-> 759000, low |-> 696000, high |-> <<854000>>],
        [avg |-> 949000, low |-> 855000, high |-> <<1031000>>],
        [avg |-> 1113000, low |-> 1032000, high |-> <<1189000>>],
        [avg |-> 1266000, low |-> 1190000, high |-> <<1344000>>],
        [avg |-> 1422000, low |-> 1345000, high |-> <<1510000>>],
        [avg |-> 1598000, low |-> 1511000, high |-> <<1702000>>],
        [avg |-> 1807000, low |-> 1703000, high |-> <<1912000>>],
        [avg |-> 2017000, low |-> 1913000, high |-> <<2066000>>],
        [avg |-> 2116000, low |-> 2067000, high |-> <<2180000>>],
        [avg |-> 2245000, low |-> 2181000, high |-> <<>>] >>
    ELSE
    IF label = "6~8" THEN <<
        [avg |-> 648000, low |-> 272000, high |-> <<707000>>],
        [avg |-> 767000, low |-> 708000, high |-> <<863000>>],
        [avg |-> 959000, low |-> 864000, high |-> <<1049000>>],
        [avg |-> 1140000, low |-> 1050000, high |-> <<1216000>>],
        [avg |-> 1292000, low |-> 1217000, high |-> <<1385000>>],
        [avg |-> 1479000, low |-> 1386000, high |-> <<1546000>>],
        [avg |-> 1614000, low |-> 1547000, high |-> <<1732000>>],
        [avg |-> 1850000, low |-> 1733000, high |-> <<1957000>>],
        [avg |-> 2065000, low |-> 1958000, high |-> <<2101000>>],
        [avg |-> 2137000, low |-> 2102000, high |-> <<2224000>>],
        [avg |-> 2312000, low |-> 2225000, high |-> <<>>] >>
    ELSE
    IF label = "9~11" THEN <<
        [avg |-> 667000, low |-> 281000, high |-> <<724000>>],
        [avg |-> 782000, low |-> 725000, high |-> <<885000>>],
        [avg |-> 988000, low |-> 886000, high |-> <<1075000>>],
        [avg |-> 1163000, low |-> 1076000, high |-> <<1240000>>],
        [avg |-> 1318000, low |-> 1241000, high |-> <<1406000>>],
        [avg |-> 1494000, low |-> 1407000, high |-> <<1562000>>],
        [avg |-> 1630000, low |-> 1563000, high |-> <<1758000>>],
        [avg |-> 1887000, low |-> 1759000, high |-> <<2012000>>],
        [avg |-> 2137000, low |-> 2013000, high |-> <<2158000>>],
        [avg |-> 2180000, low |-> 2159000, high |-> <<2292000>>],
        [avg |-> 2405000, low |-> 2293000, high |-> <<>>] >>
    ELSE
    IF label = "12~14" THEN <<
        [avg |-> 679000, low |-> 295000, high |-> <<734000>>],
        [avg |-> 790000, low |-> 735000, high |-> <<894000>>],
        [avg |-> 998000, low |-> 895000, high |-> <<1139000>>],
        [avg |-> 1280000, low |-> 1140000, high |-> <<1351000>>],
        [avg |-> 1423000, low |-> 1352000, high |-> <<1510000>>],
        [avg |-> 1598000, low |-> 1511000, high |-> <<1654000>>],
        [avg |-> 1711000, low |-> 1655000, high |-> <<1847000>>],
        [avg |-> 1984000, low |-> 1848000, high |-> <<2071000>>],
        [avg |-> 2159000, low |-> 2072000, high |-> <<2191000>>],
        [avg |-> 2223000, low |-> 2192000, high |-> <<2349000>>],
        [avg |-> 2476000, low |-> 2350000, high |-> <<>>] >>
    ELSE
    IF label = "15~18" THEN <<
        [avg |-> 703000, low |-> 319000, high |-> <<830000>>],
        [avg |-> 957000, low |-> 831000, high |-> <<1092000>>],
        [avg |-> 1227000, low |-> 1093000, high |-> <<1314000>>],
        [avg |-> 1402000, low |-> 1315000, high |-> <<1503000>>],
        [avg |-> 1604000, low |-> 1504000, high |-> <<1699000>>],
        [avg |-> 1794000, low |-> 1700000, high |-> <<1879000>>],
        [avg |-> 1964000, low |-> 1880000, high |-> <<2063000>>],
        [avg |-> 2163000, low |-> 2064000, high |-> <<2204000>>],
        [avg |-> 2246000, low |-> 2205000, high |-> <<2393000>>],
        [avg |-> 2540000, low |-> 2394000, high |-> <<2711000>>],
        [avg |-> 2883000, low |-> 2712000, high |-> <<>>] >>
    ELSE << >>

CHILD_COUNT_MULTIPLIERS(k) ==
    IF k = 1 THEN [n |-> 213, d |-> 200]      \* 1.065
    ELSE IF k = 2 THEN [n |-> 1, d |-> 1]     \* 1.0
    ELSE [n |-> 783, d |-> 1000]              \* 0.783, for 3 or more

-----------------------------------------------------------------------------
(* Exact arithmetic standing for the program's float arithmetic            *)

Abs(x) == IF x < 0 THEN -x ELSE x

RECURSIVE GCD(_, _)
GCD(a, b) == IF b = 0 THEN a ELSE GCD(b, a % b)

Rat(num, den) ==
    LET g == GCD(Abs(num), Abs(den))
        s == IF den < 0 THEN -1 ELSE 1
    IN  [n |-> s * (num \div g), d |-> s * (den \div g)]

FromInt(x) == [n |-> x, d |-> 1]

RMul(x, y) ==
    LET g1 == GCD(Abs(x.n), y.d)
        g2 == GCD(Abs(y.n), x.d)
    IN  [n |-> (x.n \div g1) * (y.n \div g2), d |-> (x.d \div g2) * (y.d \div g1)]

RAdd(x, y) ==
    LET g == GCD(x.d, y.d)
    IN  Rat(x.n * (y.d \div g) + y.n * (x.d \div g), (x.d \div g) * y.d)

RNeg(x) == [n |-> -x.n, d |-> x.d]

RSub(x, y) == RAdd(x, RNeg(y))

RLeq(x, y) == RSub(y, x).n >= 0

RMax(x, y) == IF RLeq(y, x) THEN x ELSE y

Floor(x) == x.n \div x.d

-----------------------------------------------------------------------------
(* Core functions                                                          *)

ValueError == "ValueError"

NoBracket == -1

Min(S) == CHOOSE x \in S : \A y \in S : x <= y

age_label_for_open_low(age) ==
    LET hits == { k \in 1..Len(AGE_BRACKETS) :
                     AGE_BRACKETS[k].a_min < age /\ age <= AGE_BRACKETS[k].a_max }
    IN  IF hits = {} THEN ValueError ELSE AGE_BRACKETS[Min(hits)].label

(* Guideline2021.age_label_for: the label of the first bracket that         *)
(* contains the age, ValueError when none does                              *)
age_label_for(age) ==
    LET hits == { k \in 1..Len(AGE_BRACKETS) :
                     AGE_BRACKETS[k].a_min <= age /\ age <= AGE_BRACKETS[k].a_max }
    IN  IF hits = {} THEN ValueError ELSE AGE_BRACKETS[Min(hits)].label

income_bracket_index_open_low(combined_income_krw) ==
    LET mw   == combined_income_krw \div 10000
        hits == { idx \in 0..(Len(INCOME_BRACKETS_MW) - 1) :
                     LET b == INCOME_BRACKETS_MW[idx + 1]
                     IN  IF b.hi = None THEN mw > b.lo
                         ELSE b.lo < mw /\ mw <= b.hi[1] }
    IN  IF hits = {} THEN NoBracket ELSE Min(hits)

(* Guideline2021.income_bracket_index: the 0-based index of the first       *)
(* bracket that contains combined_income_krw // 10000, NoBracket when the   *)
(* loop falls through to the raise                                          *)
income_bracket_index(combined_income_krw) ==
    LET mw   == combined_income_krw \div 10000
        hits == { idx \in 0..(Len(INCOME_BRACKETS_MW) - 1) :
                     LET b == INCOME_BRACKETS_MW[idx + 1]
                     IN  IF b.hi = None THEN mw >= b.lo
                         ELSE b.lo <= mw /\ mw <= b.hi[1] }
    IN  IF hits = {} THEN NoBracket ELSE Min(hits)

(* Guideline2021.cell: the error it raises ("" when it returns)             *)
cell_error(age, combined_income_krw) ==
    IF age_label_for(age) = ValueError THEN "OutOfRangeError"
    ELSE IF income_bracket_index(combined_income_krw) = NoBracket THEN "NoBracketError"
    ELSE ""

(* Guideline2021.cell: the ChildCell it returns                             *)
cell(age, combined_income_krw) ==
    LET label == age_label_for(age)
        idx   == income_bracket_index(combined_income_krw)
        entry == TABLE_2021(label)[idx + 1]
    IN  [age_label |-> label,
         income_bracket_mw |-> INCOME_BRACKETS_MW[idx + 1],
         avg_krw |-> entry.avg,
         low_krw |-> entry.low,
         high_krw |-> entry.high]

(* Guideline2021.minimum_support_half                                       *)
minimum_support_half(age) == TABLE_2021(age_label_for(age))[1].low \div 2

(* _safe_int: floor(x + 0.5)                                                *)
safe_int(x) == Floor(RAdd(x, [n |-> 1, d |-> 2]))

resolve_income_strict(stated, imputed) ==
    IF stated < 0 /\ imputed # None THEN imputed[1] ELSE stated

(* calculate_child_support, lines 273-276: the income used for one parent   *)
resolve_income(stated, imputed) ==
    IF stated <= 0 /\ imputed # None THEN imputed[1] ELSE stated

income_negative_custodial_only(c_income, n_income) == c_income < 0

(* calculate_child_support, line 278: the negative-income test              *)
income_negative(c_income, n_income) == c_income < 0 \/ n_income < 0

child_count_multiplier_no_third(k) ==
    IF k = 1 THEN CHILD_COUNT_MULTIPLIERS(1)
    ELSE CHILD_COUNT_MULTIPLIERS(2)

(* calculate_child_support, lines 294-300: the child-count multiplier       *)
child_count_multiplier(k) ==
    IF k = 1 THEN CHILD_COUNT_MULTIPLIERS(1)
    ELSE IF k = 2 THEN CHILD_COUNT_MULTIPLIERS(2)
    ELSE CHILD_COUNT_MULTIPLIERS(3)

AdjustmentTypes_any == {"multiplier", "add", "subtract", "divide"}

(* calculate_child_support, lines 307-321: the types with a branch          *)
AdjustmentTypes == {"multiplier", "add", "subtract"}

next_adjustment_reversed(adjs, done) == adjs[Len(adjs) - done]

(* calculate_child_support, line 306: the adjustment the loop takes after   *)
(* `done` iterations                                                        *)
next_adjustment(adjs, done) == adjs[done + 1]

(* calculate_child_support, lines 307-319: one recognised adjustment        *)
(* applied to the running total                                             *)
apply_adjustment(total, a) ==
    IF a.type = "multiplier"
    THEN IF a.is_percent THEN RMul(total, RAdd(FromInt(1), a.value))
         ELSE RMul(total, a.value)
    ELSE IF a.type = "add" THEN RAdd(total, a.value)
    ELSE RSub(total, a.value)

(* calculate_child_support, lines 310-319: the audit record appended        *)
applied_record(a) ==
    IF a.type = "multiplier"
    THEN [adjustment |-> a, effect |-> "effective_multiplier",
          amount |-> IF a.is_percent THEN RAdd(FromInt(1), a.value) ELSE a.value]
    ELSE IF a.type = "add"
    THEN [adjustment |-> a, effect |-> "effective_add_krw", amount |-> a.value]
    ELSE [adjustment |-> a, effect |-> "effective_subtract_krw", amount |-> a.value]

clamp_total_missing(total) == total

(* calculate_child_support, line 323: max(0, adjusted_total)                *)
clamp_total(total) == RMax(FromInt(0), total)

share_of_full_when_zero(n_income, combined_income) ==
    IF combined_income = 0 THEN FromInt(1) ELSE Rat(n_income, combined_income)

share_of_other_parent(n_income, combined_income) ==
    IF combined_income - n_income = 0 THEN FromInt(0)
    ELSE Rat(n_income, combined_income - n_income)

(* calculate_child_support, lines 326-331: the non-custodial share          *)
share_of(n_income, combined_income) ==
    IF combined_income = 0 THEN FromInt(0) ELSE Rat(n_income, combined_income)

-----------------------------------------------------------------------------
(* Bounds and the requests enumerated                                      *)

MaxChildren == 3
MaxAdj == 3

Ages == {-1, 2, 8, 15, 19}

CustodialIncomes == {-10000, 0, 2000000}
NonCustodialIncomes == {-10000, 0, 3000000}
ImputedIncomes == {None, <<-10000>>, <<0>>, <<9000000>>}

Adj(name, type, num, den, pct) ==
    [name |-> name, type |-> type, value |-> Rat(num, den), is_percent |-> pct]

AddTenThousand == Adj("extra", "add", 10000, 1, FALSE)
TimesOnePointOne == Adj("factor", "multiplier", 11, 10, FALSE)
TimesMinusQuarter == Adj("negfactor", "multiplier", -1, 4, FALSE)
PlusFiftyPercent == Adj("urban", "multiplier", 1, 2, TRUE)
SubtractToHundredThousand == Adj("relief", "subtract", 561365, 1, FALSE)
SubtractMillion == Adj("waiver", "subtract", 1000000, 1, FALSE)
UnknownKind == Adj("bogus", "divide", 2, 1, FALSE)

AdjChoices == { AddTenThousand, TimesOnePointOne, TimesMinusQuarter, PlusFiftyPercent,
                SubtractToHundredThousand, SubtractMillion, UnknownKind }

SeqsUpTo(S, k) == UNION { [1..len -> S] : len \in 0..k }

MkInputs(c, nc, ci, nci, ch, ad) ==
    [custodial_parent_income_krw |-> c,
     non_custodial_parent_income_krw |-> nc,
     children |-> ch,
     custodial_imputed_income_krw |-> ci,
     non_custodial_imputed_income_krw |-> nci,
     adjustments |-> ad]

(* Requests without adjustments: every income and children combination     *)
PlainRequests ==
    { MkInputs(c, nc, ci, nci, ch, << >>) :
        c \in CustodialIncomes, nc \in NonCustodialIncomes,
        ci \in ImputedIncomes, nci \in ImputedIncomes,
        ch \in SeqsUpTo(Ages, MaxChildren) }

(* Requests with adjustments: every adjustment list, over a few incomes     *)
AdjustedIncomes == { <<0, 0>>, <<1, 1>>, <<0, 4000000>>, <<-10000, 3000000>> }
AdjustedChildren == { << >>, <<2>>, <<2, 15>>, <<19>> }

AdjustedRequests ==
    { MkInputs(inc[1], inc[2], None, None, ch, ad) :
        inc \in AdjustedIncomes, ch \in AdjustedChildren,
        ad \in SeqsUpTo(AdjChoices, MaxAdj) }

(* Requests that sweep one child's age over and beyond the supported range,  *)
(* as the only child and as the second of two                               *)
AgeProbes == -3..22

AgeSweepRequests ==
    { MkInputs(2000000, 3000000, None, None, ch, << >>) :
        ch \in { <<a>> : a \in AgeProbes } \cup { <<8, a>> : a \in AgeProbes } }

(* Incomes passed to income_bracket_index when it is called on its own:     *)
(* the edges of every bracket, and values below and far above the table     *)

IncomeProbes ==
    {-10000, -1, 0, 1, 9999, 10000, 12000000, 12009999, 99990000}
    \cup { INCOME_BRACKETS_MW[k].lo * 10000 - 1 : k \in 2..Len(INCOME_BRACKETS_MW) }
    \cup { INCOME_BRACKETS_MW[k].lo * 10000 : k \in 2..Len(INCOME_BRACKETS_MW) }
    \cup { INCOME_BRACKETS_MW[k].lo * 10000 + 9999 : k \in 2..Len(INCOME_BRACKETS_MW) }

-----------------------------------------------------------------------------
(* State: the request, the position in calculate_child_support and its     *)
(* local variables, the returned breakdown or the error raised, and the    *)
(* arguments and results of direct calls of the two lookups                *)

VARIABLES inputs, pc, cust_income, noncust_income, combined, combined_mw,
          bracket_idx, cells, standard_total, m, adjusted_total, applied,
          noncust_share, payment, result, error, probe

vars == <<inputs, pc, cust_income, noncust_income, combined, combined_mw,
          bracket_idx, cells, standard_total, m, adjusted_total, applied,
          noncust_share, payment, result, error, probe>>

locals == <<cust_income, noncust_income, combined, combined_mw,
            bracket_idx, cells, standard_total, m, adjusted_total, applied,
            noncust_share, payment>>

Unbound == -1

NoProbe == [incomes |-> << >>, indices |-> << >>]

LocalsInit ==
    /\ cust_income = 0
    /\ noncust_income = 0
    /\ combined = 0
    /\ combined_mw = 0
    /\ bracket_idx = Unbound
    /\ cells = << >>
    /\ standard_total = 0
    /\ m = FromInt(0)
    /\ adjusted_total = FromInt(0)
    /\ applied = << >>
    /\ noncust_share = FromInt(0)
    /\ payment = 0
    /\ result = << >>
    /\ error = ""

Init ==
    /\ inputs \in PlainRequests \cup AdjustedRequests \cup AgeSweepRequests
    /\ pc = "start"
    /\ LocalsInit
    /\ probe = NoProbe

Raise(e) ==
    /\ pc' = "failed"
    /\ error' = e
    /\ UNCHANGED result

(* lines 265-266 *)
CheckChildren ==
    /\ pc = "start"
    /\ IF inputs.children = << >>
       THEN Raise("EmptyChildrenError")
       ELSE pc' = "impute" /\ UNCHANGED <<result, error>>
    /\ UNCHANGED <<inputs, locals, probe>>

(* lines 268-276 *)
ImputeIncome ==
    /\ pc = "impute"
    /\ cust_income' = resolve_income(inputs.custodial_parent_income_krw,
                                     inputs.custodial_imputed_income_krw)
    /\ noncust_income' = resolve_income(inputs.non_custodial_parent_income_krw,
                                        inputs.non_custodial_imputed_income_krw)
    /\ pc' = "validate"
    /\ UNCHANGED <<inputs, combined, combined_mw, bracket_idx, cells,
                   standard_total, m, adjusted_total, applied, noncust_share,
                   payment, result, error, probe>>

(* lines 278-279 *)
CheckIncome ==
    /\ pc = "validate"
    /\ IF income_negative(cust_income, noncust_income)
       THEN Raise("NegativeIncomeError")
       ELSE pc' = "bracket" /\ UNCHANGED <<result, error>>
    /\ UNCHANGED <<inputs, locals, probe>>

(* lines 281-283 *)
ResolveBracket ==
    /\ pc = "bracket"
    /\ combined' = cust_income + noncust_income
    /\ combined_mw' = (cust_income + noncust_income) \div 10000
    /\ bracket_idx' = income_bracket_index(cust_income + noncust_income)
    /\ IF income_bracket_index(cust_income + noncust_income) = NoBracket
       THEN Raise("NoBracketError")
       ELSE pc' = "cells" /\ UNCHANGED <<result, error>>
    /\ UNCHANGED <<inputs, cust_income, noncust_income, cells, standard_total,
                   m, adjusted_total, applied, noncust_share, payment, probe>>

(* lines 288-291, one iteration of the loop over the children *)
AddChildCell ==
    /\ pc = "cells"
    /\ Len(cells) < Len(inputs.children)
    /\ LET age == inputs.children[Len(cells) + 1]
       IN  IF cell_error(age, combined) # ""
           THEN /\ Raise(cell_error(age, combined))
                /\ UNCHANGED <<cells, standard_total>>
           ELSE /\ cells' = Append(cells, cell(age, combined))
                /\ standard_total' = standard_total + cell(age, combined).avg_krw
                /\ UNCHANGED <<pc, result, error>>
    /\ UNCHANGED <<inputs, cust_income, noncust_income, combined, combined_mw,
                   bracket_idx, m, adjusted_total, applied, noncust_share,
                   payment, probe>>

(* lines 294-305, after the loop over the children *)
ScaleByChildCount ==
    /\ pc = "cells"
    /\ Len(cells) = Len(inputs.children)
    /\ m' = child_count_multiplier(Len(inputs.children))
    /\ adjusted_total' = RMul(FromInt(standard_total),
                              child_count_multiplier(Len(inputs.children)))
    /\ applied' = << >>
    /\ pc' = "adjust"
    /\ UNCHANGED <<inputs, cust_income, noncust_income, combined, combined_mw,
                   bracket_idx, cells, standard_total, noncust_share, payment,
                   result, error, probe>>

(* lines 306-321, one iteration of the loop over the adjustments *)
ApplyAdjustment ==
    /\ pc = "adjust"
    /\ Len(applied) < Len(inputs.adjustments)
    /\ LET a == next_adjustment(inputs.adjustments, Len(applied))
       IN  IF a.type \in AdjustmentTypes
           THEN /\ adjusted_total' = apply_adjustment(adjusted_total, a)
                /\ applied' = Append(applied, applied_record(a))
                /\ UNCHANGED <<pc, result, error>>
           ELSE /\ Raise("InvalidAdjustmentError")
                /\ UNCHANGED <<adjusted_total, applied>>
    /\ UNCHANGED <<inputs, cust_income, noncust_income, combined, combined_mw,
                   bracket_idx, cells, standard_total, m, noncust_share,
                   payment, probe>>

(* line 323 *)
ClampTotal ==
    /\ pc = "adjust"
    /\ Len(applied) = Len(inputs.adjustments)
    /\ adjusted_total' = clamp_total(adjusted_total)
    /\ pc' = "allocate"
    /\ UNCHANGED <<inputs, cust_income, noncust_income, combined, combined_mw,
                   bracket_idx, cells, standard_total, m, applied,
                   noncust_share, payment, result, error, probe>>

(* lines 326-333 *)
Allocate ==
    /\ pc = "allocate"
    /\ noncust_share' = share_of(noncust_income, combined)
    /\ payment' = safe_int(RMul(adjusted_total, share_of(noncust_income, combined)))
    /\ pc' = "return"
    /\ UNCHANGED <<inputs, cust_income, noncust_income, combined, combined_mw,
                   bracket_idx, cells, standard_total, m, adjusted_total,
                   applied, result, error, probe>>

(* lines 335-346 *)
Return ==
    /\ pc = "return"
    /\ result' = << [combined_income_krw |-> combined,
                     combined_income_mw |-> combined_mw,
                     income_bracket_index |-> bracket_idx,
                     standard_children_cells |-> cells,
                     standard_total_krw |-> standard_total,
                     child_count_multiplier |-> m,
                     adjusted_total_krw |-> safe_int(adjusted_total),
                     non_custodial_share |-> noncust_share,
                     non_custodial_payment_krw |-> payment,
                     applied_adjustments |-> applied] >>
    /\ pc' = "done"
    /\ UNCHANGED <<inputs, locals, error, probe>>

Next ==
    \/ CheckChildren
    \/ ImputeIncome
    \/ CheckIncome
    \/ ResolveBracket
    \/ AddChildCell
    \/ ScaleByChildCount
    \/ ApplyAdjustment
    \/ ClampTotal
    \/ Allocate
    \/ Return

Spec == Init /\ [][Next]_vars

-----------------------------------------------------------------------------
(* Direct calls of Guideline2021.income_bracket_index on a pair of incomes  *)

IdleRequest == MkInputs(0, 0, None, None, << >>, << >>)

InitLookup ==
    /\ inputs = IdleRequest
    /\ pc = "lookup"
    /\ LocalsInit
    /\ probe \in [incomes : IncomeProbes \X IncomeProbes, indices : { << >> }]

CallIncomeBracket ==
    /\ pc = "lookup"
    /\ Len(probe.indices) < Len(probe.incomes)
    /\ probe' = [probe EXCEPT !.indices =
                    Append(@, income_bracket_index(probe.incomes[Len(@) + 1]))]
    /\ UNCHANGED <<inputs, pc, locals, result, error>>

NextLookup == CallIncomeBracket

SpecLookup == InitLookup /\ [][NextLookup]_vars

-----------------------------------------------------------------------------
(* Properties                                                              *)

Res == result[1]

(* The income the claims call "after imputation", from the request alone    *)
IncomeUsed(stated, imputed) ==
    IF stated <= 0 /\ imputed # None THEN imputed[1] ELSE stated

CustodialUsed == IncomeUsed(inputs.custodial_parent_income_krw,
                            inputs.custodial_imputed_income_krw)

NonCustodialUsed == IncomeUsed(inputs.non_custodial_parent_income_krw,
                               inputs.non_custodial_imputed_income_krw)

CombinedUsed == CustodialUsed + NonCustodialUsed

(* The table row and column a child's amount is to be read from             *)
AgeRowOf(age) ==
    CHOOSE k \in 1..Len(AGE_BRACKETS) :
        AGE_BRACKETS[k].a_min <= age /\ age <= AGE_BRACKETS[k].a_max

Contains(idx, mw) ==
    LET b == INCOME_BRACKETS_MW[idx + 1]
    IN  b.lo <= mw /\ (b.hi = None \/ mw <= b.hi[1])

IncomeColumnOf(income) ==
    CHOOSE idx \in 0..(Len(INCOME_BRACKETS_MW) - 1) : Contains(idx, income \div 10000)

RECURSIVE SumOfAverages(_, _)
SumOfAverages(children, income) ==
    IF children = << >> THEN 0
    ELSE TABLE_2021(AGE_BRACKETS[AgeRowOf(Head(children))].label)[IncomeColumnOf(income) + 1].avg
         + SumOfAverages(Tail(children), income)

(* p is x rounded half up: -1/2 <= x - p < 1/2 *)
IsRoundHalfUp(p, x) ==
    LET rest == x.n - p * x.d
    IN  -x.d <= 2 * rest /\ 2 * rest < x.d

(* m is the decimal thousandths / 1000 *)
IsDecimal(x, thousandths) == x.n * 1000 = thousandths * x.d

ScenarioA == MkInputs(2000000, 3000000, None, None, <<8>>, << >>)
ScenarioB == MkInputs(2000000, 3000000, None, None, <<2, 15>>, << >>)

FoldStep(total, a) ==
    IF a.type = "multiplier" /\ ~a.is_percent THEN RMul(total, a.value)
    ELSE IF a.type = "multiplier" THEN RMul(total, RAdd(a.value, FromInt(1)))
    ELSE IF a.type = "add" THEN RAdd(total, a.value)
    ELSE RSub(total, a.value)

RECURSIVE FoldLeft(_, _, _)
FoldLeft(total, adjs, k) ==
    IF k = 0 THEN total ELSE FoldStep(FoldLeft(total, adjs, k - 1), adjs[k])

Seed == RMul(FromInt(standard_total), m)

IsNegative(x) == x.n < 0

(* C2: the adjusted total of every returned result is at least zero,        *)
(* whatever the adjustments                                                 *)
C2_AdjustedTotalNonNegative ==
    pc = "done" => Res.adjusted_total_krw >= 0

(* a subtraction larger than the running total, or a negative factor, drove *)
(* the running total below zero before the result was returned              *)
C2_Witness ==
    /\ pc = "done"
    /\ IsNegative(FoldLeft(Seed, inputs.adjustments, Len(inputs.adjustments)))
    /\ \E k \in 1..Len(inputs.adjustments) :
          /\ inputs.adjustments[k].type = "subtract"
          /\ IsNegative(FoldLeft(Seed, inputs.adjustments, k))
          /\ ~IsNegative(FoldLeft(Seed, inputs.adjustments, k - 1))
    /\ Res.adjusted_total_krw = 0

AllRecognised == \A k \in 1..Len(inputs.adjustments) :
                    inputs.adjustments[k].type \in {"multiplier", "add", "subtract"}

AllAgesSupported == \A k \in 1..Len(inputs.children) : inputs.children[k] \in 0..18

(* C3: when the combined income after imputation is zero, the call does not *)
(* fail for that reason (with children of supported ages and recognised     *)
(* adjustments it does not fail at all), and what it returns has share 0    *)
(* and payment 0, whatever the children and the adjustments                 *)
C3_ZeroCombinedIncome ==
    (CustodialUsed = 0 /\ NonCustodialUsed = 0) =>
        /\ pc = "failed" => error \notin {"NegativeIncomeError", "NoBracketError"}
        /\ (inputs.children # << >> /\ AllAgesSupported /\ AllRecognised) => pc # "failed"
        /\ pc = "done" => /\ Res.combined_income_krw = 0
                          /\ Res.non_custodial_share = FromInt(0)
                          /\ Res.non_custodial_payment_krw = 0

(* zero combined income, an additive adjustment, a positive adjusted total  *)
C3_Witness ==
    /\ pc = "done"
    /\ Res.combined_income_krw = 0
    /\ Len(inputs.children) = 2
    /\ \E k \in 1..Len(inputs.adjustments) : inputs.adjustments[k].type = "add"
    /\ Res.adjusted_total_krw > 0
    /\ Res.non_custodial_payment_krw = 0

(* C4: the non-custodial share of every returned result lies in [0, 1]      *)
C4_ShareInUnitInterval ==
    pc = "done" =>
        /\ Res.non_custodial_share.d > 0
        /\ 0 <= Res.non_custodial_share.n
        /\ Res.non_custodial_share.n <= Res.non_custodial_share.d

(* both incomes imputed and positive, a share strictly between 0 and 1      *)
C4_Witness ==
    /\ pc = "done"
    /\ inputs.custodial_parent_income_krw <= 0
    /\ inputs.non_custodial_parent_income_krw <= 0
    /\ 0 < Res.non_custodial_share.n
    /\ Res.non_custodial_share.n < Res.non_custodial_share.d

NothingComputed ==
    /\ combined = 0
    /\ bracket_idx = Unbound
    /\ cells = << >>
    /\ standard_total = 0
    /\ adjusted_total = FromInt(0)
    /\ applied = << >>
    /\ payment = 0
    /\ result = << >>

(* C5: with an empty children list the call fails with EmptyChildrenError;  *)
(* with children and a negative income after imputation it fails with       *)
(* NegativeIncomeError; either way it gets no further than the check, with  *)
(* no bracket looked up, no amount computed and no result                   *)
C5_ValidationFailures ==
    /\ inputs.children = << >> =>
          /\ pc \in {"start", "failed"}
          /\ pc = "failed" => error = "EmptyChildrenError"
          /\ NothingComputed
    /\ (inputs.children # << >> /\ (CustodialUsed < 0 \/ NonCustodialUsed < 0)) =>
          /\ pc \in {"start", "impute", "validate", "failed"}
          /\ pc = "failed" => error = "NegativeIncomeError"
          /\ NothingComputed

(* scenario D: a negative non-custodial income without imputed fallback     *)
C5_Witness ==
    /\ pc = "failed"
    /\ error = "NegativeIncomeError"
    /\ inputs.non_custodial_parent_income_krw < 0
    /\ inputs.non_custodial_imputed_income_krw = None
    /\ CustodialUsed > 0
    /\ Len(inputs.children) = 2

OneYoungChildOnMinimalIncome(adjs) == MkInputs(1, 1, None, None, <<2>>, adjs)

(* C6: the adjustments are folded into the running total left to right in   *)
(* the order supplied (factor: total * value, percentage: total * (1 +      *)
(* value), add: total + value, subtract: total - value), one record per     *)
(* adjustment in the same order; from a total of 100000, [+10000, x1.1]     *)
(* gives 121000 and [x1.1, +10000] gives 120000                             *)
C6_AdjustmentsInOrder ==
    /\ pc \in {"adjust", "done"} =>
          /\ Len(applied) <= Len(inputs.adjustments)
          /\ \A k \in 1..Len(applied) : applied[k].adjustment = inputs.adjustments[k]
    /\ pc = "adjust" =>
          adjusted_total = FoldLeft(Seed, inputs.adjustments, Len(applied))
    /\ pc = "done" =>
          /\ Len(Res.applied_adjustments) = Len(inputs.adjustments)
          /\ LET folded == FoldLeft(Seed, inputs.adjustments, Len(inputs.adjustments))
             IN  IsRoundHalfUp(Res.adjusted_total_krw,
                               IF IsNegative(folded) THEN FromInt(0) ELSE folded)
    /\ \A pair \in { <<AddTenThousand, TimesOnePointOne>>,
                     <<TimesOnePointOne, AddTenThousand>> } :
          inputs = OneYoungChildOnMinimalIncome(<<SubtractToHundredThousand>> \o pair) =>
             /\ (pc = "adjust" /\ Len(applied) = 1) => adjusted_total = FromInt(100000)
             /\ pc = "done" =>
                   Res.adjusted_total_krw =
                       IF pair[1] = AddTenThousand THEN 121000 ELSE 120000

(* the two orders of the example, the first one shown returned              *)
C6_Witness ==
    /\ pc = "done"
    /\ inputs = OneYoungChildOnMinimalIncome(
                    <<SubtractToHundredThousand, AddTenThousand, TimesOnePointOne>>)
    /\ Res.adjusted_total_krw = 121000
    /\ Len(Res.applied_adjustments) = 3

HasUnknownKind == \E k \in 1..Len(inputs.adjustments) :
                     inputs.adjustments[k].type \notin {"multiplier", "add", "subtract"}

FirstUnknownKind ==
    Min({ k \in 1..Len(inputs.adjustments) :
             inputs.adjustments[k].type \notin {"multiplier", "add", "subtract"} })

PassesEarlierChecks ==
    /\ inputs.children # << >>
    /\ CustodialUsed >= 0
    /\ NonCustodialUsed >= 0
    /\ AllAgesSupported

(* C7 as stated: a request with an unrecognised adjustment kind (that gets  *)
(* as far as the adjustments) fails with InvalidAdjustmentError, and at the *)
(* moment of failure no adjustment of the list has been applied to the      *)
(* running total or appended to the applied-adjustments record              *)
C7_NoPartialEffect ==
    (HasUnknownKind /\ PassesEarlierChecks) =>
        /\ pc # "done"
        /\ pc = "failed" => /\ error = "InvalidAdjustmentError"
                            /\ applied = << >>
                            /\ adjusted_total = Seed

(* C7 amended: a request with an unrecognised adjustment kind returns no    *)
(* result; if the children, incomes and ages pass their checks it fails     *)
(* with InvalidAdjustmentError at the first unrecognised adjustment, and at *)
(* that moment exactly the adjustments before it have been applied, in      *)
(* order, to the running total and appended to the record                   *)
C7_FailsAtFirstUnknown ==
    HasUnknownKind =>
        /\ pc \notin {"allocate", "return", "done"}
        /\ result = << >>
        /\ pc = "failed" /\ error = "InvalidAdjustmentError" => PassesEarlierChecks
        /\ (pc = "failed" /\ PassesEarlierChecks) =>
              /\ error = "InvalidAdjustmentError"
              /\ Len(applied) = FirstUnknownKind - 1
              /\ \A k \in 1..Len(applied) : applied[k].adjustment = inputs.adjustments[k]
              /\ adjusted_total = FoldLeft(Seed, inputs.adjustments, FirstUnknownKind - 1)

(* two recognised adjustments were applied before the unrecognised third    *)
C7_Witness ==
    /\ pc = "failed"
    /\ error = "InvalidAdjustmentError"
    /\ Len(inputs.adjustments) = 3
    /\ Len(applied) = 2
    /\ adjusted_total # Seed

ImputationDone ==
    \/ pc \in {"validate", "bracket", "cells", "adjust", "allocate", "return", "done"}
    \/ pc = "failed" /\ error # "EmptyChildrenError"

(* C8: for each parent on its own, the income used is the imputed value     *)
(* exactly when the stated income is <= 0 and an imputed value was          *)
(* supplied, and the stated value (zero included) in every other case       *)
C8_Imputation ==
    ImputationDone =>
        /\ LET stated == inputs.custodial_parent_income_krw
               imputed == inputs.custodial_imputed_income_krw
           IN  /\ (stated <= 0 /\ imputed # None) => cust_income = imputed[1]
               /\ (stated > 0 \/ imputed = None) => cust_income = stated
        /\ LET stated == inputs.non_custodial_parent_income_krw
               imputed == inputs.non_custodial_imputed_income_krw
           IN  /\ (stated <= 0 /\ imputed # None) => noncust_income = imputed[1]
               /\ (stated > 0 \/ imputed = None) => noncust_income = stated
        /\ pc = "done" => Res.combined_income_krw = cust_income + noncust_income

(* a stated zero kept for one parent, a stated zero replaced for the other  *)
C8_Witness ==
    /\ pc = "done"
    /\ inputs.custodial_parent_income_krw = 0
    /\ inputs.custodial_imputed_income_krw = None
    /\ inputs.non_custodial_parent_income_krw = 0
    /\ inputs.non_custodial_imputed_income_krw = <<9000000>>
    /\ cust_income = 0
    /\ noncust_income = 9000000
    /\ Res.combined_income_krw = 9000000

LastBracket == Len(INCOME_BRACKETS_MW) - 1

(* C9: for a non-negative income, income_bracket_index returns an index,    *)
(* that of the one bracket containing income // 10000 (the last bracket for *)
(* every value from 1200 up), and a larger income never gets a smaller index*)
C9_IncomeBracket ==
    /\ \A k \in 1..Len(probe.indices) :
          LET income == probe.incomes[k]
              idx == probe.indices[k]
              mw == income \div 10000
          IN  income >= 0 =>
                 /\ idx \in 0..LastBracket
                 /\ Contains(idx, mw)
                 /\ Cardinality({ i \in 0..LastBracket : Contains(i, mw) }) = 1
                 /\ mw >= 1200 => idx = LastBracket
    /\ (Len(probe.indices) = 2 /\ 0 <= probe.incomes[1]
            /\ probe.incomes[1] <= probe.incomes[2]) =>
          probe.indices[1] <= probe.indices[2]

(* both sides of a bracket edge looked up *)
C9_Witness ==
    /\ probe.incomes = <<1999999, 2000000>>
    /\ probe.indices = <<0, 1>>

Supported == 0..18

BracketsOf(age) ==
    { k \in 1..Len(AGE_BRACKETS) :
         AGE_BRACKETS[k].a_min <= age /\ age <= AGE_BRACKETS[k].a_max }

(* C10: the age brackets partition 0..18; every child of such an age gets   *)
(* the label of the one bracket containing it; a child of any other age     *)
(* makes age_label_for fail with OutOfRangeError and the request fail with  *)
(* no result                                                                *)
C10_AgeBracket ==
    /\ \A age \in Supported : Cardinality(BracketsOf(age)) = 1
    /\ \A k \in 1..Len(cells) :
          /\ inputs.children[k] \in Supported
          /\ BracketsOf(inputs.children[k]) = { AgeRowOf(inputs.children[k]) }
          /\ cells[k].age_label = AGE_BRACKETS[AgeRowOf(inputs.children[k])].label
    /\ (pc = "failed" /\ error = "OutOfRangeError") =>
          /\ Len(cells) < Len(inputs.children)
          /\ inputs.children[Len(cells) + 1] \notin Supported
    /\ (pc = "cells" /\ Len(cells) < Len(inputs.children)
            /\ inputs.children[Len(cells) + 1] \in Supported) =>
          cell_error(inputs.children[Len(cells) + 1], combined) = ""
    /\ ~AllAgesSupported =>
          /\ pc \notin {"adjust", "allocate", "return", "done"}
          /\ result = << >>
          /\ pc = "failed" =>
                error \in {"OutOfRangeError", "NegativeIncomeError"}

(* a supported first child was labelled, the second is above the range      *)
C10_Witness ==
    /\ pc = "failed"
    /\ error = "OutOfRangeError"
    /\ inputs.children = <<8, 19>>
    /\ Len(cells) = 1
    /\ cells[1].age_label = "6~8"
    /\ result = << >>

=============================================================================
